---------------------------- MODULE Spec2Model ----------------------------
(***************************************************************************)
(* A model of the smaps parser (src/src/parse.rs, src/src/lib.rs).         *)
(*                                                                         *)
(* The line source is a finite sequence of io::Result<String> items.  A    *)
(* Parser<R, S> is the pair (position in the source, type state S); the    *)
(* three public operations on it, Parser<ParseMapping>::next,              *)
(* Parser<ParseUsage>::next and Parser<ParseUsage>::skip, are the actions. *)
(* The record and primitive decoders they call are operators over strings, *)
(* computed character by character as the Rust code computes them.         *)
(*                                                                         *)
(* Values: Option<T> is None / Some(v), io::Result<T> is Ok(v) / Err(e),   *)
(* a panic!() or a failed unwrap() is the outcome Panic(msg).  usize and   *)
(* u32 are little-endian sequences of 16-bit limbs, so that 64-bit         *)
(* arithmetic keeps its width.  A bitflags value is the set of its bit     *)
(* positions.                                                              *)
(***************************************************************************)
EXTENDS Integers, Sequences, FiniteSets, TLC

VARIABLES src, pos, state, trace

vars == <<src, pos, state, trace>>

(***************************************************************************)
(* Bounds of the model.                                                    *)
(***************************************************************************)
\* The longest line source.
MaxLines == 3
\* The longest usage block of the single blocks.
MaxBlock == 2
\* The most tokens of a VmFlags line of the flag blocks.
MaxFlags == 3
\* The most operations taken on one parser: enough to drive every stream to
\* its end and one step beyond.
MaxSteps == 2 * MaxLines + 2
\* The most operations taken on a parser that has nothing left to read.
MaxPastEnd == 2

(***************************************************************************)
(* Option, io::Result and panics.                                          *)
(***************************************************************************)
None == [tag |-> "None"]
Some(v) == [tag |-> "Some", val |-> v]
Ok(v) == [tag |-> "Ok", val |-> v]
Err(e) == [tag |-> "Err", err |-> e]
Panic(msg) == [tag |-> "Panic", msg |-> msg]

IsNone(o) == o.tag = "None"
IsSome(o) == o.tag = "Some"
IsOk(r) == r.tag = "Ok"
IsErr(r) == r.tag = "Err"
IsPanic(r) == r.tag = "Panic"

(***************************************************************************)
(* Strings.                                                                *)
(***************************************************************************)
Char(s, i) == SubSeq(s, i, i)

Skip1(s, n) == SubSeq(s, n + 1, Len(s))

\* str::contains(char)
contains(s, c) == \E i \in 1..Len(s) : Char(s, i) = c

\* str::starts_with(&str)
starts_with(s, p) == Len(s) >= Len(p) /\ SubSeq(s, 1, Len(p)) = p

\* str::ends_with(&str)
ends_with(s, p) == Len(s) >= Len(p) /\ SubSeq(s, Len(s) - Len(p) + 1, Len(s)) = p

\* u8::is_ascii_whitespace: space, tab, line feed, form feed, carriage return
is_ascii_whitespace(c) == c \in {" ", "\t", "\n", "\f", "\r"}

\* str::trim_start_matches(&str): the prefix removed as often as it repeats
RECURSIVE trim_start_matches(_, _)
trim_start_matches(s, p) ==
    IF Len(p) > 0 /\ starts_with(s, p)
    THEN trim_start_matches(Skip1(s, Len(p)), p)
    ELSE s

\* str::trim_end_matches(&str): the suffix removed as often as it repeats
RECURSIVE trim_end_matches(_, _)
trim_end_matches(s, p) ==
    IF Len(p) > 0 /\ ends_with(s, p)
    THEN trim_end_matches(SubSeq(s, 1, Len(s) - Len(p)), p)
    ELSE s

\* str::trim_ascii_start
RECURSIVE trim_ascii_start(_)
trim_ascii_start(s) ==
    IF Len(s) > 0 /\ is_ascii_whitespace(Char(s, 1))
    THEN trim_ascii_start(Skip1(s, 1))
    ELSE s

\* The length of the longest prefix of s without ASCII whitespace.
RECURSIVE TokenLen(_)
TokenLen(s) ==
    IF Len(s) = 0 \/ is_ascii_whitespace(Char(s, 1))
    THEN 0
    ELSE 1 + TokenLen(Skip1(s, 1))

\* str::split_ascii_whitespace, collected: the non-empty maximal runs of
\* characters that are not ASCII whitespace, in order.
RECURSIVE split_ascii_whitespace(_)
split_ascii_whitespace(s) ==
    LET t == trim_ascii_start(s)
        n == TokenLen(t)
    IN  IF Len(t) = 0
        THEN <<>>
        ELSE <<SubSeq(t, 1, n)>> \o split_ascii_whitespace(Skip1(t, n))

\* Iterator::next on the collected tokens: the i-th token, if there is one.
Token(toks, i) == IF i <= Len(toks) THEN Some(toks[i]) ELSE None

\* str::split_once(char): the parts before and after the first occurrence.
split_once(s, c) ==
    IF contains(s, c)
    THEN LET i == CHOOSE k \in 1..Len(s) :
                    /\ Char(s, k) = c
                    /\ \A j \in 1..(k - 1) : Char(s, j) # c
         IN  Some(<<SubSeq(s, 1, i - 1), Skip1(s, i)>>)
    ELSE None


(***************************************************************************)
(* Machine integers: usize and u32 as little-endian sequences of limbs.    *)
(***************************************************************************)
\* usize of the target (x86_64 Linux, where /proc/[pid]/smaps exists)
USIZE_BITS == 64
\* Device::major, Device::minor
U32_BITS == 32

LimbBase == 2^16

Limbs(bits) == bits \div 16

Zero(bits) == [i \in 1..Limbs(bits) |-> 0]

\* w * m + a over the limbs of w, with the carry out of the top limb.
RECURSIVE MulAdd(_, _, _)
MulAdd(w, m, a) ==
    IF w = <<>>
    THEN [limbs |-> <<>>, carry |-> a]
    ELSE LET t == w[1] * m + a
             r == MulAdd(Tail(w), m, t \div LimbBase)
         IN  [limbs |-> <<t % LimbBase>> \o r.limbs, carry |-> r.carry]

\* The word of a small natural number (for stating expected values).
Word(n, bits) == MulAdd(Zero(bits), 0, n).limbs

\* usize << unit: the bits shifted out of the word are dropped.  (The
\* shift amount is at most 40 < USIZE_BITS, so the shift itself never
\* overflows.)
RECURSIVE shl(_, _)
shl(w, unit) == IF unit = 0 THEN w ELSE shl(MulAdd(w, 2, 0).limbs, unit - 1)

DigitsLower == "0123456789abcdefghijklmnopqrstuvwxyz"
DigitsUpper == "0123456789ABCDEFGHIJKLMNOPQRSTUVWXYZ"

\* char::to_digit(radix)
to_digit(c, radix) ==
    LET D == {d \in 0..(radix - 1) :
                Char(DigitsLower, d + 1) = c \/ Char(DigitsUpper, d + 1) = c}
    IN  IF D = {} THEN None ELSE Some(CHOOSE d \in D : TRUE)

\* The digits of s folded into acc, most significant first; None on a
\* character that is no digit and on overflow of the word.
RECURSIVE FoldDigits(_, _, _)
FoldDigits(s, radix, acc) ==
    IF Len(s) = 0
    THEN Some(acc)
    ELSE LET d == to_digit(Char(s, 1), radix)
         IN  IF IsNone(d)
             THEN None
             ELSE LET r == MulAdd(acc, radix, d.val)
                  IN  IF r.carry # 0
                      THEN None
                      ELSE FoldDigits(Skip1(s, 1), radix, r.limbs)

\* <unsigned>::from_str_radix(s, radix).ok(): an optional '+', then at least
\* one digit; a '-' is no digit of an unsigned type.
from_str_radix(s, radix, bits) ==
    IF Len(s) = 0 \/ s = "+" \/ s = "-"
    THEN None
    ELSE FoldDigits(IF Char(s, 1) = "+" THEN Skip1(s, 1) ELSE s, radix, Zero(bits))

\* str::parse::<usize>().ok()
parse_usize(s) == from_str_radix(s, 10, USIZE_BITS)

\* fn parse_hex
parse_hex(data) == from_str_radix(data, 16, USIZE_BITS)

(***************************************************************************)
(* Permissions and Device.                                                 *)
(***************************************************************************)
\* bitflags Permissions: u8, each constant the set of its bit positions
Permissions_bits == [X |-> 0, W |-> 1, R |-> 2, S |-> 3, P |-> 4]

Permissions_empty == {}

Permissions_flag(name) == {Permissions_bits[name]}

\* Permissions::parse
Permissions_parse(data) ==
    IF Len(data) # 4
    THEN None
    ELSE IF \/ Char(data, 1) \notin {"-", "r"}
            \/ Char(data, 2) \notin {"-", "w"}
            \/ Char(data, 3) \notin {"-", "x"}
            \/ Char(data, 4) \notin {"s", "p"}
         THEN None
         ELSE LET read == IF Char(data, 1) = "r" THEN Permissions_flag("R")
                                                   ELSE Permissions_empty
                  write == IF Char(data, 2) = "w" THEN Permissions_flag("W")
                                                    ELSE Permissions_empty
                  execute == IF Char(data, 3) = "x" THEN Permissions_flag("X")
                                                      ELSE Permissions_empty
                  shared == IF Char(data, 4) = "s" THEN Permissions_flag("S")
                                                     ELSE Permissions_flag("P")
              IN  Some(read \cup write \cup execute \cup shared)

\* Device::parse
Device_parse(data) ==
    LET parts == split_once(data, ":")
    IN  IF IsNone(parts)
        THEN None
        ELSE LET major == from_str_radix(parts.val[1], 16, U32_BITS)
                 minor == from_str_radix(parts.val[2], 16, U32_BITS)
             IN  IF IsNone(major) \/ IsNone(minor)
                 THEN None
                 ELSE Some([major |-> major.val, minor |-> minor.val])

(***************************************************************************)
(* Mapping.                                                                *)
(***************************************************************************)
\* Mapping::parse.  The unwrap() of the first token panics on a line with
\* no token; every other missing or undecodable field is None.
Mapping_parse(line) ==
    LET toks == split_ascii_whitespace(line)
    IN  IF IsNone(Token(toks, 1))
        THEN Panic("Option::unwrap on None")
        ELSE
        LET range == split_once(toks[1], "-")
            permissions == IF IsSome(Token(toks, 2))
                           THEN Permissions_parse(toks[2]) ELSE None
            offset == Token(toks, 3)
            device == IF IsSome(Token(toks, 4))
                      THEN Device_parse(toks[4]) ELSE None
            inode == Token(toks, 5)
            path == Token(toks, 6)
        IN  IF \/ IsNone(range) \/ IsNone(permissions) \/ IsNone(offset)
               \/ IsNone(device) \/ IsNone(inode)
            THEN None
            ELSE
            LET start == parse_hex(range.val[1])
                end == parse_hex(range.val[2])
                off == parse_hex(offset.val)
                ino == parse_usize(inode.val)
            IN  IF IsNone(start) \/ IsNone(end) \/ IsNone(off) \/ IsNone(ino)
                THEN None
                ELSE Some([start |-> start.val,
                           end |-> end.val,
                           permissions |-> permissions.val,
                           offset |-> off.val,
                           device |-> device.val,
                           inode |-> ino.val,
                           path |-> path])

(***************************************************************************)
(* VmFlags.                                                                *)
(***************************************************************************)
\* bitflags VmFlags: u32, each constant the position of its bit (1 << n)
VmFlags_bits ==
    [RD |-> 0, WR |-> 1, EX |-> 2, SH |-> 3, MR |-> 4, MW |-> 5, ME |-> 6,
     MS |-> 7, GD |-> 8, PF |-> 9, DW |-> 10, LO |-> 11, IO |-> 12, SR |-> 13,
     RR |-> 14, DC |-> 15, DE |-> 16, AC |-> 17, NR |-> 18, HT |-> 19,
     SF |-> 20, NL |-> 21, AR |-> 22, WF |-> 23, DD |-> 24, SD |-> 25,
     MM |-> 26, HG |-> 27, NH |-> 28, MG |-> 29, UM |-> 30, UW |-> 31]

VmFlags_empty == {}

\* The match of VmFlags::parse: mnemonic => constant
VmFlags_mnemonic ==
    [rd |-> "RD", wr |-> "WR", ex |-> "EX", sh |-> "SH", mr |-> "MR",
     mw |-> "MW", me |-> "ME", ms |-> "MS", gd |-> "GD", pf |-> "PF",
     dw |-> "DW", lo |-> "LO", io |-> "IO", sr |-> "SR", rr |-> "RR",
     dc |-> "DC", de |-> "DE", ac |-> "AC", nr |-> "NR", ht |-> "HT",
     sf |-> "SF", nl |-> "NL", ar |-> "AR", wf |-> "WF", dd |-> "DD",
     sd |-> "SD", mm |-> "MM", hg |-> "HG", nh |-> "NH", mg |-> "MG",
     um |-> "UM", uw |-> "UW"]

\* The fold of VmFlags::parse as it would be if an unrecognized token were
\* passed over in place of the panic.
RECURSIVE VmFlags_fold_ignore(_, _, _)
VmFlags_fold_ignore(toks, i, acc) ==
    IF i > Len(toks)
    THEN Ok(acc)
    ELSE IF toks[i] \notin DOMAIN VmFlags_mnemonic
         THEN VmFlags_fold_ignore(toks, i + 1, acc)
         ELSE VmFlags_fold_ignore(toks, i + 1,
                                  acc \cup {VmFlags_bits[VmFlags_mnemonic[toks[i]]]})

\* .map(|flag| match flag { ... }).fold(VmFlags::empty(), BitOr::bitor) over
\* the tokens from the i-th on; the first unrecognized token panics.
RECURSIVE VmFlags_fold(_, _, _)
VmFlags_fold(toks, i, acc) ==
    IF i > Len(toks)
    THEN Ok(acc)
    ELSE IF toks[i] \notin DOMAIN VmFlags_mnemonic
         THEN Panic("Unrecognized VM flag: " \o toks[i])
         ELSE VmFlags_fold(toks, i + 1,
                           acc \cup {VmFlags_bits[VmFlags_mnemonic[toks[i]]]})

\* VmFlags::parse
VmFlags_parse(data) == VmFlags_fold(split_ascii_whitespace(data), 1, VmFlags_empty)

(***************************************************************************)
(* Usage.                                                                  *)
(***************************************************************************)
\* Usage::default()
Usage_default ==
    [size |-> Zero(USIZE_BITS),
     kernel_page_size |-> Zero(USIZE_BITS),
     mmu_page_size |-> Zero(USIZE_BITS),
     rss |-> Zero(USIZE_BITS),
     pss |-> Zero(USIZE_BITS),
     pss_dirty |-> Zero(USIZE_BITS),
     shared_clean |-> Zero(USIZE_BITS),
     shared_dirty |-> Zero(USIZE_BITS),
     private_clean |-> Zero(USIZE_BITS),
     private_dirty |-> Zero(USIZE_BITS),
     referenced |-> Zero(USIZE_BITS),
     anonymous |-> Zero(USIZE_BITS),
     ksm |-> Zero(USIZE_BITS),
     lazy_free |-> Zero(USIZE_BITS),
     anon_huge_pages |-> Zero(USIZE_BITS),
     shmem_huge_pages |-> Zero(USIZE_BITS),
     shmem_pmd_mapped |-> Zero(USIZE_BITS),
     file_pmd_mapped |-> Zero(USIZE_BITS),
     shared_hugetlb |-> Zero(USIZE_BITS),
     private_hugetlb |-> Zero(USIZE_BITS),
     swap |-> Zero(USIZE_BITS),
     swap_pss |-> Zero(USIZE_BITS),
     locked |-> Zero(USIZE_BITS),
     thp_eligible |-> FALSE,
     protection_key |-> None,
     vm_flags |-> VmFlags_empty]

\* The unit match of Usage::parse_line: the shift of a unit token.
Unit_shift == [kB |-> 10, mB |-> 20, gB |-> 30, tB |-> 40]

\* Usage::parse_line as it would be with an unrecognized unit treated as one
\* more grammar failure: None in place of the panic.
Usage_parse_line_lenient(line) ==
    LET toks == split_ascii_whitespace(line)
    IN  IF IsNone(Token(toks, 1)) \/ IsNone(Token(toks, 2))
        THEN None
        ELSE
        LET key == trim_end_matches(toks[1], ":")
            third == Token(toks, 3)
            n == parse_usize(toks[2])
        IN  IF IsSome(third) /\ third.val \notin DOMAIN Unit_shift
            THEN None
            ELSE IF IsSome(Token(toks, 4)) \/ IsNone(n)
                 THEN None
                 ELSE Some(<<key, shl(n.val, IF IsSome(third)
                                             THEN Unit_shift[third.val] ELSE 0)>>)

\* Usage::parse_line.  The unit is matched, and an unrecognized one panics,
\* before the fourth token is looked at and before the number is parsed.
Usage_parse_line(line) ==
    LET toks == split_ascii_whitespace(line)
    IN  IF IsNone(Token(toks, 1)) \/ IsNone(Token(toks, 2))
        THEN None
        ELSE
        LET key == trim_end_matches(toks[1], ":")
            value == toks[2]
            third == Token(toks, 3)
        IN  IF IsSome(third) /\ third.val \notin DOMAIN Unit_shift
            THEN Panic("Unrecognized unit: " \o third.val)
            ELSE
            LET unit == IF IsSome(third) THEN Unit_shift[third.val] ELSE 0
                n == parse_usize(value)
            IN  IF IsSome(Token(toks, 4))
                THEN None
                ELSE IF IsNone(n)
                     THEN None
                     ELSE Some(<<key, shl(n.val, unit)>>)

\* The match of Usage::parse: key => the field assigned.
Usage_key_field ==
    [Size |-> "size", KernelPageSize |-> "kernel_page_size",
     MMUPageSize |-> "mmu_page_size", Rss |-> "rss", Pss |-> "pss",
     Pss_Dirty |-> "pss_dirty", Shared_Clean |-> "shared_clean",
     Shared_Dirty |-> "shared_dirty", Private_Clean |-> "private_clean",
     Private_Dirty |-> "private_dirty", Referenced |-> "referenced",
     Anonymous |-> "anonymous", KSM |-> "ksm", LazyFree |-> "lazy_free",
     AnonHugePages |-> "anon_huge_pages", ShmemPmdMapped |-> "shmem_pmd_mapped",
     FilePmdMapped |-> "file_pmd_mapped", Shared_Hugetlb |-> "shared_hugetlb",
     Private_Hugetlb |-> "private_hugetlb", Swap |-> "swap",
     SwapPss |-> "swap_pss", Locked |-> "locked",
     THPeligible |-> "thp_eligible", ProtectionKey |-> "protection_key"]

\* The match of Usage::parse as it would be with a last arm that does
\* nothing: a line with an unrecognized key is skipped.
Usage_assign_skip_unknown(usage, key, value) ==
    IF key \notin DOMAIN Usage_key_field
    THEN Ok(usage)
    ELSE Ok(CASE key = "THPeligible" ->
                   [usage EXCEPT !.thp_eligible = (value # Zero(USIZE_BITS))]
              [] key = "ProtectionKey" ->
                   [usage EXCEPT !.protection_key = Some(value)]
              [] OTHER ->
                   [usage EXCEPT ![Usage_key_field[key]] = value])

\* The match of Usage::parse as it would be if a field, once set, were
\* kept: the first line that names a key wins over the later ones.
Usage_assign_keep_first(usage, key, value) ==
    IF key \notin DOMAIN Usage_key_field
    THEN Panic("Unrecognized key: " \o key)
    ELSE IF usage[Usage_key_field[key]] # Usage_default[Usage_key_field[key]]
         THEN Ok(usage)
         ELSE Ok(CASE key = "THPeligible" ->
                        [usage EXCEPT !.thp_eligible = (value # Zero(USIZE_BITS))]
                   [] key = "ProtectionKey" ->
                        [usage EXCEPT !.protection_key = Some(value)]
                   [] OTHER ->
                        [usage EXCEPT ![Usage_key_field[key]] = value])

\* The match of Usage::parse as it would be with an arm for the key
\* ShmemHugePages, assigning the field of that name.
Usage_assign_shmem_huge_pages(usage, key, value) ==
    IF key = "ShmemHugePages"
    THEN Ok([usage EXCEPT !.shmem_huge_pages = value])
    ELSE IF key \notin DOMAIN Usage_key_field
         THEN Panic("Unrecognized key: " \o key)
         ELSE Ok(CASE key = "THPeligible" ->
                        [usage EXCEPT !.thp_eligible = (value # Zero(USIZE_BITS))]
                   [] key = "ProtectionKey" ->
                        [usage EXCEPT !.protection_key = Some(value)]
                   [] OTHER ->
                        [usage EXCEPT ![Usage_key_field[key]] = value])

\* One arm of the match of Usage::parse; the last arm panics.
Usage_assign(usage, key, value) ==
    IF key \notin DOMAIN Usage_key_field
    THEN Panic("Unrecognized key: " \o key)
    ELSE Ok(CASE key = "THPeligible" ->
                   [usage EXCEPT !.thp_eligible = (value # Zero(USIZE_BITS))]
              [] key = "ProtectionKey" ->
                   [usage EXCEPT !.protection_key = Some(value)]
              [] OTHER ->
                   [usage EXCEPT ![Usage_key_field[key]] = value])

\* The condition of next_if and of peek as it would be without
\* is_ok_and: an I/O error counts as one more item of the block.
IsDetailItem_or_error(items, p) ==
    /\ p < Len(items)
    /\ IsErr(items[p + 1]) \/ ~contains(items[p + 1].val, "-")

\* The condition of iter.next_if in Usage::parse and of iter.peek in skip:
\* there is a next item, it is Ok, and its line contains no '-'.
IsDetailItem(items, p) ==
    /\ p < Len(items)
    /\ IsOk(items[p + 1])
    /\ ~contains(items[p + 1].val, "-")

\* Usage::parse from position p with the accumulator usage: the value
\* returned (or the panic) and the position the iterator is left at.
RECURSIVE Usage_parse_loop(_, _, _)
Usage_parse_loop(items, p, usage) ==
    IF ~IsDetailItem(items, p)
    THEN [ret |-> Ok(Some(usage)), pos |-> p]
    ELSE
    LET item == items[p + 1]
    IN  IF IsErr(item)
        THEN [ret |-> item, pos |-> p + 1]
        ELSE
        LET line == item.val
        IN  IF starts_with(line, "VmFlags")
            THEN LET f == VmFlags_parse(
                            trim_ascii_start(trim_start_matches(line, "VmFlags:")))
                 IN  IF IsPanic(f)
                     THEN [ret |-> f, pos |-> p + 1]
                     ELSE Usage_parse_loop(items, p + 1,
                                           [usage EXCEPT !.vm_flags = f.val])
            ELSE LET kv == Usage_parse_line(line)
                 IN  IF IsPanic(kv)
                     THEN [ret |-> kv, pos |-> p + 1]
                     ELSE IF IsNone(kv)
                          THEN [ret |-> Ok(None), pos |-> p + 1]
                          ELSE LET u == Usage_assign(usage, kv.val[1], kv.val[2])
                               IN  IF IsPanic(u)
                                   THEN [ret |-> u, pos |-> p + 1]
                                   ELSE Usage_parse_loop(items, p + 1, u.val)

\* Usage::parse as it would be over a plain iterator: iter.next() in place
\* of next_if, so that the line that ends the block is consumed with it.
Usage_parse_eager(items, p) ==
    LET r == Usage_parse_loop(items, p, Usage_default)
    IN  IF IsOk(r.ret) /\ IsSome(r.ret.val) /\ r.pos < Len(items)
        THEN [r EXCEPT !.pos = r.pos + 1]
        ELSE r

\* Usage::parse as it would be if a block without lines were no Usage.
Usage_parse_none_if_empty(items, p) ==
    IF ~IsDetailItem(items, p)
    THEN [ret |-> Ok(None), pos |-> p]
    ELSE Usage_parse_loop(items, p, Usage_default)

\* Usage::parse
Usage_parse(items, p) == Usage_parse_loop(items, p, Usage_default)

\* The loop of skip as it would be with `if` in place of `while`.
skip_loop_once(items, p) == IF IsDetailItem(items, p) THEN p + 1 ELSE p

\* The loop of Parser<ParseUsage>::skip: the position it leaves the
\* iterator at.
RECURSIVE skip_loop(_, _)
skip_loop(items, p) ==
    IF IsDetailItem(items, p) THEN skip_loop(items, p + 1) ELSE p

(***************************************************************************)
(* Parser<R, S>: the iterator position and the type state.                 *)
(***************************************************************************)
\* Parser::with_state as it would be if it kept the state it was called in
\* (the state a parser is opened in).
with_state_keep(p, T) == [iter |-> p, _state |-> "ParseMapping"]

\* Parser::with_state: the same iterator under the new state.
with_state(p, T) == [iter |-> p, _state |-> T]

\* The outcome of a step that returns no parser: the parser was moved into
\* the call and dropped (an Err return), or the thread panicked.
NoParser(p, why) == [iter |-> p, _state |-> why]

\* Parser<R, ParseMapping>::next as it would be over iter.peek(): the line
\* is decoded and left in the iterator.
Parser_ParseMapping_next_in_place(items, p) ==
    IF p >= Len(items)
    THEN [ret |-> Ok(None), parser |-> with_state(p, "ParseUsage")]
    ELSE LET item == items[p + 1]
         IN  IF IsErr(item)
             THEN [ret |-> item, parser |-> NoParser(p, "Dropped")]
             ELSE LET mapping == Mapping_parse(item.val)
                  IN  IF IsPanic(mapping)
                      THEN [ret |-> mapping, parser |-> NoParser(p, "Panicked")]
                      ELSE [ret |-> Ok(mapping),
                            parser |-> with_state(p, "ParseUsage")]

\* Parser<R, ParseMapping>::next as it would be if it peeked at the line and
\* consumed it only once it had decoded.
Parser_ParseMapping_next_peek(items, p) ==
    IF p >= Len(items)
    THEN [ret |-> Ok(None), parser |-> with_state(p, "ParseUsage")]
    ELSE LET item == items[p + 1]
         IN  IF IsErr(item)
             THEN [ret |-> item, parser |-> NoParser(p + 1, "Dropped")]
             ELSE LET mapping == Mapping_parse(item.val)
                  IN  IF IsPanic(mapping)
                      THEN [ret |-> mapping, parser |-> NoParser(p, "Panicked")]
                      ELSE [ret |-> Ok(mapping),
                            parser |-> with_state(IF IsSome(mapping) THEN p + 1 ELSE p,
                                                  "ParseUsage")]

\* Parser<R, ParseMapping>::next
Parser_ParseMapping_next(items, p) ==
    IF p >= Len(items)
    THEN [ret |-> Ok(None), parser |-> with_state(p, "ParseUsage")]
    ELSE LET item == items[p + 1]
         IN  IF IsErr(item)
             THEN [ret |-> item, parser |-> NoParser(p + 1, "Dropped")]
             ELSE LET mapping == Mapping_parse(item.val)
                  IN  IF IsPanic(mapping)
                      THEN [ret |-> mapping, parser |-> NoParser(p + 1, "Panicked")]
                      ELSE [ret |-> Ok(mapping),
                            parser |-> with_state(p + 1, "ParseUsage")]

\* Parser<R, ParseUsage>::next
Parser_ParseUsage_next(items, p) ==
    LET usage == Usage_parse(items, p)
    IN  IF IsErr(usage.ret)
        THEN [ret |-> usage.ret, parser |-> NoParser(usage.pos, "Dropped")]
        ELSE IF IsPanic(usage.ret)
             THEN [ret |-> usage.ret, parser |-> NoParser(usage.pos, "Panicked")]
             ELSE [ret |-> usage.ret, parser |-> with_state(usage.pos, "ParseMapping")]

\* Parser<R, ParseUsage>::skip as it would be without its loop: the change
\* of state alone.
Parser_ParseUsage_skip_in_place(items, p) ==
    [ret |-> [tag |-> "Parser"],
     parser |-> with_state(p, "ParseMapping")]

\* Parser<R, ParseUsage>::skip: it returns the parser alone.
Parser_ParseUsage_skip(items, p) ==
    [ret |-> [tag |-> "Parser"],
     parser |-> with_state(skip_loop(items, p), "ParseMapping")]

(***************************************************************************)
(* The line sources and the state machine.                                 *)
(***************************************************************************)
\* What std::io::Lines yields: a line, or an I/O error.
IoError == Err("EIO")

\* The lines of the streams: headers (valid with and without a path, and
\* with a malformed permission token), an empty line, and detail lines
\* (valid, and failing the sized-value grammar).
StreamLines ==
    {"00400000-00452000 r-xp 00000000 08:02 173521 /usr/bin/cat",
     "7f00-7fff rw-s 1000 fd:1 0",
     "1000-2000 rwxX 0 8:2 5",
     "",
     "Size: 72 kB",
     "Size: abc kB"}

\* The detail lines of the single blocks: every way a detail line decodes
\* or fails to.
DetailLines ==
    {"Size: 72 kB",
     "Rss: 4",
     "THPeligible: 1",
     "ProtectionKey: 0",
     "VmFlags: rd ex mr me",
     "VmFlags:",
     "VmFlags: rd zz",
     "Swap:",
     "Size: abc",
     "Size: abc kB",
     "Pss: 1 kB x",
     "Size: 1 zB",
     "Pss: 1 zB x",
     "Size: abc zB",
     "Foo: 1 kB",
     "   ",
     "Size: 4",
     "Pss: 3 mB",
     "Swap: 2 gB",
     "Locked: 1 tB",
     "Size: 18014398509481984 kB",
     "ShmemHugePages: 4 kB",
     "VmFlags: me rd",
     "VmFlagsX: 1"}

\* The header line the single blocks follow.
BlockHeader == "00400000-00452000 r-xp 00000000 08:02 173521 /usr/bin/cat"

RECURSIVE SeqsUpTo(_, _)
SeqsUpTo(S, n) ==
    IF n = 0
    THEN {<<>>}
    ELSE LET shorter == SeqsUpTo(S, n - 1)
         IN  shorter \cup {Append(q, x) : q \in {r \in shorter : Len(r) = n - 1}, x \in S}

OkItems(L) == {Ok(l) : l \in L}

\* The header lines of the single headers: paths of no, one and several
\* tokens, addresses that fill the machine word, a malformed permission
\* token.
HeaderLines ==
    {"00400000-00452000 r-xp 00000000 08:02 173521 /usr/bin/cat",
     "7f00-7fff rw-s 1000 fd:1 0",
     "1000-2000 rw-p 0 8:2 5 /tmp/a b (deleted)",
     "ffffffffff600000-ffffffffff601000 --xp 00000000 00:00 0 [vsyscall]",
     "1000-2000 rwxX 0 8:2 5"}

\* The tokens of the VmFlags lines: recognized mnemonics (the first and the
\* last two of the table) and an unrecognized one.
FlagTokens == {"rd", "ex", "um", "uw", "zz"}

\* The VmFlags line of a list of tokens.
RECURSIVE FlagsLine(_)
FlagsLine(toks) ==
    IF toks = <<>> THEN "VmFlags:" ELSE FlagsLine(SubSeq(toks, 1, Len(toks) - 1))
                                        \o " " \o toks[Len(toks)]

\* The line sources: every stream of at most MaxLines items; every header
\* followed by a block of at most MaxBlock detail lines; every single
\* header line; every header followed by a VmFlags line of at most MaxFlags
\* tokens and a valid detail line.
Sources ==
    SeqsUpTo(OkItems(StreamLines) \cup {IoError}, MaxLines)
    \cup {<<Ok(BlockHeader)>> \o b : b \in SeqsUpTo(OkItems(DetailLines), MaxBlock)}
    \cup {<<Ok(h)>> : h \in HeaderLines}
    \cup {<<Ok(BlockHeader), Ok(FlagsLine(t)), Ok("Rss: 4")>> :
            t \in SeqsUpTo(FlagTokens, MaxFlags)}

Step(op, r) == [op |-> op, from |-> pos, to |-> r.parser.iter,
                ret |-> r.ret, next |-> r.parser._state]

\* Parser::open: a parser that expects a header, at the start of the source.
Init ==
    /\ src \in Sources
    /\ pos = 0
    /\ state = "ParseMapping"
    /\ trace = <<>>

\* The operations taken so far with the source exhausted.
PastEnd == {i \in 1..Len(trace) : trace[i].from = Len(src)}

Take(op, r) ==
    /\ Len(trace) < MaxSteps
    /\ Cardinality(PastEnd) < MaxPastEnd
    /\ pos' = r.parser.iter
    /\ state' = r.parser._state
    /\ trace' = Append(trace, Step(op, r))
    /\ UNCHANGED src

HeaderNext ==
    /\ state = "ParseMapping"
    /\ Take("header", Parser_ParseMapping_next(src, pos))

UsageNext ==
    /\ state = "ParseUsage"
    /\ Take("usage", Parser_ParseUsage_next(src, pos))

UsageSkip ==
    /\ state = "ParseUsage"
    /\ Take("skip", Parser_ParseUsage_skip(src, pos))

Next == HeaderNext \/ UsageNext \/ UsageSkip

Spec == Init /\ [][Next]_vars

(***************************************************************************)
(* Vocabulary of the properties.                                           *)
(***************************************************************************)
Stepped == trace # <<>>

\* The last step taken.
Last == trace[Len(trace)]

\* The step returned to its caller (it did not panic).
Returned(st) == ~IsPanic(st.ret)

\* Item k of the source is a line without '-'.
DashFree(k) == IsOk(src[k]) /\ ~contains(src[k].val, "-")

\* Item k of the source is a line with '-': a header line.
HeaderLine(k) == IsOk(src[k]) /\ contains(src[k].val, "-")

\* A detail line that Usage::parse decodes and goes on from: a VmFlags line
\* of recognized mnemonics, or KEY: NUMBER [UNIT] with a recognized key.
DecodesCleanly(line) ==
    IF starts_with(line, "VmFlags")
    THEN IsOk(VmFlags_parse(trim_ascii_start(trim_start_matches(line, "VmFlags:"))))
    ELSE LET kv == Usage_parse_line(line)
         IN  IsSome(kv) /\ kv.val[1] \in DOMAIN Usage_key_field

\* The usage step st gets as far as item k: every item before it, from
\* where the step started, is a line without '-' that decodes cleanly.
Reaches(st, k) ==
    /\ k \in (st.from + 1)..Len(src)
    /\ \A i \in (st.from + 1)..(k - 1) : DashFree(i) /\ DecodesCleanly(src[i].val)

(***************************************************************************)
(* C1: stream synchronization.  After a usage step (decoding or skipping)  *)
(* returns, the next unread line of the source is a header line (it        *)
(* contains '-') or the source is exhausted.  (An unread I/O error is no   *)
(* line and is not held against the claim.)  The decoding step breaks      *)
(* this: it returns Ok(None) at the first line that fails the sized-value  *)
(* grammar and leaves the rest of the block unread.                        *)
(***************************************************************************)
C1_StreamSynchronized ==
    (Stepped /\ Last.op \in {"usage", "skip"} /\ Returned(Last))
        => (pos = Len(src) \/ IsErr(src[pos + 1]) \/ HeaderLine(pos + 1))

(***************************************************************************)
(* C2: skip never fails.  Parser<ParseUsage>::skip consumes exactly the    *)
(* maximal run of leading lines without '-', returns nothing but the       *)
(* expect-header parser, and neither errs nor panics whatever the skipped  *)
(* lines hold.                                                             *)
(***************************************************************************)
C2_SkipNeverFails ==
    (Stepped /\ Last.op = "skip")
        => /\ Last.ret = [tag |-> "Parser"]
           /\ Last.next = "ParseMapping"
           /\ state = "ParseMapping"
           /\ Last.to >= Last.from
           /\ pos = Last.to
           /\ \A i \in (Last.from + 1)..Last.to : DashFree(i)
           /\ Last.to < Len(src) => ~DashFree(Last.to + 1)

\* A skip over a block of two lines or more that holds an unrecognized key,
\* an unrecognized unit and a line that fails the grammar.
C2_Witness ==
    /\ Stepped /\ Last.op = "skip"
    /\ state = "ParseMapping"
    /\ Last.to - Last.from >= 2
    /\ \E i \in (Last.from + 1)..Last.to : src[i] = Ok("Foo: 1 kB")
    /\ \E i \in (Last.from + 1)..Last.to : src[i] \in {Ok("Size: 1 zB"), Ok("Size: abc kB")}

(***************************************************************************)
(* C3: the header step returns no Mapping (None) only at end of stream,    *)
(* so that a line that is present and fails to decode can be told apart    *)
(* from the end.  The code returns Ok(None) for both.                      *)
(***************************************************************************)
C3_NoneOnlyAtEnd ==
    (Stepped /\ Last.op = "header" /\ Last.ret = Ok(None))
        => Last.from = Len(src)

(***************************************************************************)
(* C4: an I/O error the decoding usage step reaches (every line of the     *)
(* block before it decodes) is returned by that step, which returns no     *)
(* Usage built from the lines before it.  The code's next_if never takes   *)
(* an Err item, so the step returns Ok(Some(usage)) and leaves the error   *)
(* unread.                                                                 *)
(***************************************************************************)
C4_IoErrorPropagated ==
    (Stepped /\ Last.op = "usage")
        => \A k \in 1..Len(src) :
             (Reaches(Last, k) /\ IsErr(src[k])) => Last.ret = src[k]

(***************************************************************************)
(* C5: header decoding yields a complete Mapping or a parse failure for    *)
(* every line, and never aborts.  The unwrap() of the first token panics   *)
(* on an empty or whitespace-only line.                                    *)
(***************************************************************************)
C5_HeaderDecodeTotal ==
    (Stepped /\ Last.op = "header" /\ Last.from < Len(src) /\ IsOk(src[Last.from + 1]))
        => /\ IsOk(Last.ret)
           /\ Last.ret.val.tag \in {"Some", "None"}
           /\ IsSome(Last.ret.val) =>
                DOMAIN Last.ret.val.val =
                  {"start", "end", "permissions", "offset", "device", "inode", "path"}

(***************************************************************************)
(* C6: a detail line that fails the sized-value grammar KEY: NUMBER [UNIT] *)
(* and the decoding usage step.                                            *)
(***************************************************************************)
Units == {"kB", "mB", "gB", "tB"}

\* The grammar KEY: NUMBER [UNIT]: two or three tokens, the second an
\* unsigned machine word in decimal, the third one of the four units.
SizedValueGrammar(line) ==
    LET t == split_ascii_whitespace(line)
    IN  /\ Len(t) \in {2, 3}
        /\ IsSome(parse_usize(t[2]))
        /\ Len(t) = 3 => t[3] \in Units

\* The line has a third token that is not one of the four units.
ThirdTokenNoUnit(line) ==
    LET t == split_ascii_whitespace(line)
    IN  Len(t) >= 3 /\ t[3] \notin Units

\* The decoding usage step st gets as far as line k, which goes to the
\* sized-value decoder (it is no VmFlags line) and fails its grammar.
ReachesGrammarFailure(st, k) ==
    /\ st.op = "usage"
    /\ Reaches(st, k)
    /\ DashFree(k)
    /\ ~starts_with(src[k].val, "VmFlags")
    /\ ~SizedValueGrammar(src[k].val)

\* C6 as claimed: every detail line that fails the grammar, in any of the
\* four ways, makes the decoding usage step return Ok(None).  The code
\* panics on a third token that is no unit.
C6_Original ==
    Stepped =>
        \A k \in 1..Len(src) :
            ReachesGrammarFailure(Last, k) => Last.ret = Ok(None)

\* C6 as amended: a detail line (not a VmFlags line) that fails the grammar
\* makes the decoding usage step stop at that line; the step returns
\* Ok(None) when the line has no third token or a unit as its third token
\* (NUMBER missing or not a number, or a fourth token), and panics with
\* "Unrecognized unit" when the third token is not a unit, whatever else
\* the line holds.  It never returns an I/O error.
C6_GrammarFailure ==
    Stepped =>
        \A k \in 1..Len(src) :
            ReachesGrammarFailure(Last, k) =>
                /\ Last.to = k
                /\ IF ThirdTokenNoUnit(src[k].val)
                   THEN Last.ret = Panic("Unrecognized unit: "
                                         \o split_ascii_whitespace(src[k].val)[3])
                   ELSE Last.ret = Ok(None) /\ state = "ParseMapping"

\* The block's second line has a fourth token after a unit, a valid line
\* precedes it, and the decoding usage step has returned Ok(None) there.
C6_Witness ==
    /\ Stepped
    /\ ReachesGrammarFailure(Last, Last.from + 2)
    /\ src[Last.from + 2] = Ok("Pss: 1 kB x")
    /\ Last.ret = Ok(None)
    /\ Last.to = Last.from + 2

(***************************************************************************)
(* C7: ordering.  On a well-formed stream, header step then decoding usage *)
(* step, repeated until the header step reports the end of the stream,     *)
(* yield one Mapping per header line in source order, each followed by the *)
(* Usage of exactly the detail lines up to the next header line; the       *)
(* source is read once, front to back.                                     *)
(***************************************************************************)
\* Every item is a line; a line with '-' decodes as a header, a line
\* without decodes as a detail line; the first line is a header.
WellFormed ==
    /\ \A k \in 1..Len(src) :
         /\ IsOk(src[k])
         /\ IF contains(src[k].val, "-")
            THEN IsSome(Mapping_parse(src[k].val))
            ELSE DecodesCleanly(src[k].val)
    /\ Len(src) > 0 => HeaderLine(1)

HeaderIdx == {k \in 1..Len(src) : HeaderLine(k)}

\* The index of the j-th header line.
NthHeader(j) ==
    CHOOSE h \in HeaderIdx : Cardinality({g \in HeaderIdx : g < h}) = j - 1

\* The index of the last line of the block that follows header line h.
BlockEnd(h) ==
    IF \E g \in HeaderIdx : g > h
    THEN (CHOOSE g \in HeaderIdx : g > h /\ \A f \in HeaderIdx : f > h => g <= f) - 1
    ELSE Len(src)

\* The driver of the claim: header and decoding usage steps only, and the
\* last step is the first header step to report the end of the stream.
DrivenToEnd ==
    /\ Stepped
    /\ Last.op = "header" /\ Last.ret = Ok(None)
    /\ \A i \in 1..(Len(trace) - 1) :
         /\ trace[i].op \in {"header", "usage"}
         /\ trace[i].op = "header" => trace[i].ret # Ok(None)

\* C7: on a well-formed stream driven to its end, step 2j-1 returns the
\* Mapping of the j-th header line, step 2j the Usage of exactly the lines of
\* its block, and every step starts where the one before it stopped.
C7_Ordering ==
    (DrivenToEnd /\ WellFormed) =>
        /\ Len(trace) = 2 * Cardinality(HeaderIdx) + 1
        /\ \A j \in 1..Cardinality(HeaderIdx) :
             LET h == NthHeader(j)
             IN  /\ trace[2 * j - 1].op = "header"
                 /\ trace[2 * j - 1].from = h - 1
                 /\ trace[2 * j - 1].to = h
                 /\ trace[2 * j - 1].ret = Ok(Mapping_parse(src[h].val))
                 /\ trace[2 * j].op = "usage"
                 /\ trace[2 * j].from = h
                 /\ trace[2 * j].to = BlockEnd(h)
                 /\ trace[2 * j].ret = Usage_parse(SubSeq(src, h + 1, BlockEnd(h)), 0).ret
                 /\ IsSome(trace[2 * j].ret.val)
        /\ trace[1].from = 0
        /\ \A i \in 2..Len(trace) : trace[i].from = trace[i - 1].to
        /\ Last.to = Len(src)

\* A well-formed stream of two different headers, the first with a detail
\* line, driven to its end.
C7_Witness ==
    /\ DrivenToEnd /\ WellFormed
    /\ Len(src) = 3
    /\ HeaderIdx = {1, 3}
    /\ src[1] # src[3]
    /\ Len(trace) = 5
    /\ trace[2].ret # Ok(Some(Usage_default))
    /\ trace[4].ret = Ok(Some(Usage_default))

(***************************************************************************)
(* C8: protocol alternation.  The steps taken on one parser alternate,     *)
(* header step first; a usage step (decoding or skipping) is only ever     *)
(* taken right after a header step.                                        *)
(***************************************************************************)
Alternation ==
    /\ \A i \in 1..Len(trace) :
         IF i % 2 = 1 THEN trace[i].op = "header"
                      ELSE trace[i].op \in {"usage", "skip"}
    /\ state = "ParseUsage" => (Stepped /\ Last.op = "header")
    /\ state = "ParseMapping" => (~Stepped \/ Last.op \in {"usage", "skip"})

\* C8 as claimed: every header step that returns yields an expect-usage
\* parser and every usage step that returns yields an expect-header
\* parser.  (A panic returns nothing and is not held against the claim.)
\* A header step that meets an I/O error returns Err and no parser.
C8_Original ==
    /\ Alternation
    /\ \A i \in 1..Len(trace) :
         Returned(trace[i]) =>
             IF trace[i].op = "header"
             THEN trace[i].next = "ParseUsage"
             ELSE trace[i].next = "ParseMapping"

\* C8 as amended: a header step yields an expect-usage parser exactly when
\* it returns Ok (with or without a Mapping), a decoding usage step yields
\* an expect-header parser exactly when it returns Ok (with or without a
\* Usage), and skip always does; a step that returns an I/O error or panics
\* yields no parser, and no step follows it.
C8_Alternation ==
    /\ Alternation
    /\ \A i \in 1..Len(trace) :
         LET st == trace[i]
             handsOn == st.op = "skip" \/ IsOk(st.ret)
         IN  /\ st.op = "header" => (st.next = "ParseUsage" <=> handsOn)
             /\ st.op \in {"usage", "skip"} => (st.next = "ParseMapping" <=> handsOn)
             /\ ~handsOn => (i = Len(trace) /\ st.next \in {"Dropped", "Panicked"})
             /\ i < Len(trace) => handsOn
    /\ Stepped => state = Last.next

\* A header step that returned no Mapping, then a decoding usage step that
\* returned no Usage, then a further header step.
C8_Witness ==
    /\ Len(trace) >= 3
    /\ trace[1].ret = Ok(None)
    /\ trace[1].from < Len(src)
    /\ trace[2].op = "usage" /\ trace[2].ret = Ok(None)
    /\ trace[3].op = "header"

(***************************************************************************)
(* C9: empty usage block.  A decoding usage step taken when the next       *)
(* unread line is a header line (contains '-') or the stream is exhausted  *)
(* returns Some(Usage) with every numeric field 0, thp_eligible false,     *)
(* protection_key absent and vm_flags empty, and consumes no line.         *)
(***************************************************************************)
NumericFields ==
    {"size", "kernel_page_size", "mmu_page_size", "rss", "pss", "pss_dirty",
     "shared_clean", "shared_dirty", "private_clean", "private_dirty",
     "referenced", "anonymous", "ksm", "lazy_free", "anon_huge_pages",
     "shmem_huge_pages", "shmem_pmd_mapped", "file_pmd_mapped",
     "shared_hugetlb", "private_hugetlb", "swap", "swap_pss", "locked"}

AllZero(usage) ==
    /\ DOMAIN usage = NumericFields \cup {"thp_eligible", "protection_key", "vm_flags"}
    /\ \A f \in NumericFields : \A i \in DOMAIN usage[f] : usage[f][i] = 0
    /\ usage.thp_eligible = FALSE
    /\ usage.protection_key = None
    /\ usage.vm_flags = {}

\* The decoding usage step st started at a header line or at the end.
AtEmptyBlock(st) ==
    /\ st.op = "usage"
    /\ st.from = Len(src) \/ HeaderLine(st.from + 1)

\* C9: a decoding usage step at an empty block returns Some(all-zero Usage)
\* and leaves the position where it was.
C9_EmptyBlock ==
    (Stepped /\ AtEmptyBlock(Last)) =>
        /\ IsOk(Last.ret)
        /\ IsSome(Last.ret.val)
        /\ AllZero(Last.ret.val.val)
        /\ Last.to = Last.from
        /\ pos = Last.from

\* A header immediately followed by another header: the decoding usage
\* step after the first one.
C9_Witness ==
    /\ Len(trace) = 2
    /\ IsOk(trace[1].ret) /\ IsSome(trace[1].ret.val)
    /\ AtEmptyBlock(Last)
    /\ Last.from < Len(src)
    /\ IsSome(Mapping_parse(src[Last.from + 1].val))
    /\ Last.ret = Ok(Some(Usage_default))

(***************************************************************************)
(* C10: the header step consumes exactly one line when a line is           *)
(* available, whether or not it decodes, and nothing when the source is    *)
(* exhausted.                                                              *)
(***************************************************************************)
C10_HeaderConsumesOne ==
    (Stepped /\ Last.op = "header") =>
        /\ pos = Last.to
        /\ (Last.from < Len(src) /\ IsOk(src[Last.from + 1])) => Last.to = Last.from + 1
        /\ Last.from = Len(src) => Last.to = Last.from

\* The header step has failed on the permission token "rwxX" and has left
\* the lines after that line unread.
C10_Witness ==
    /\ Stepped /\ Last.op = "header"
    /\ Last.from < Len(src)
    /\ src[Last.from + 1] = Ok("1000-2000 rwxX 0 8:2 5")
    /\ Last.ret = Ok(None)
    /\ pos = Last.from + 1
    /\ pos < Len(src)

(***************************************************************************)
(* C11: unit scaling.  The value decoded from KEY: n UNIT is n * 2^10,     *)
(* n * 2^20, n * 2^30, n * 2^40 for kB, mB, gB, tB and n without a unit,   *)
(* for every machine word n, also when the product exceeds the machine     *)
(* word.  The code shifts within the word, so the bits of the product      *)
(* beyond it are dropped and a different number is returned.               *)
(***************************************************************************)
\* The power of 1024 a unit stands for.
UnitPower == [kB |-> 1, mB |-> 2, gB |-> 3, tB |-> 4]

\* w * 1024^e, exact when w has the limbs to hold it.
RECURSIVE Times1024(_, _)
Times1024(w, e) == IF e = 0 THEN w ELSE Times1024(MulAdd(w, 1024, 0).limbs, e - 1)

\* A machine word as a number of twice the width.
Wide(w) == w \o Zero(USIZE_BITS)

\* The exact product of the NUMBER and the unit of a line of the grammar.
ExactScaled(line) ==
    LET t == split_ascii_whitespace(line)
    IN  Times1024(Wide(parse_usize(t[2]).val),
                  IF Len(t) = 3 THEN UnitPower[t[3]] ELSE 0)

\* The key of a detail line: its first token without the colons that end it.
KeyOf(line) ==
    LET t == split_ascii_whitespace(line)
    IN  IF t = <<>> THEN "" ELSE trim_end_matches(t[1], ":")

NumericKeys == DOMAIN Usage_key_field \ {"THPeligible", "ProtectionKey"}

\* The decoding usage step st has decoded the block of the single line k.
DecodedSingleLine(st, k) ==
    /\ st.op = "usage"
    /\ k = st.from + 1 /\ st.to = k
    /\ IsOk(st.ret) /\ IsSome(st.ret.val)

C11_UnitScaling ==
    (Stepped /\ DecodedSingleLine(Last, Last.to)
             /\ ~starts_with(src[Last.to].val, "VmFlags")
             /\ SizedValueGrammar(src[Last.to].val)
             /\ KeyOf(src[Last.to].val) \in NumericKeys)
        => Wide(Last.ret.val.val[Usage_key_field[KeyOf(src[Last.to].val)]])
             = ExactScaled(src[Last.to].val)

\* The scaling holds where the product fits the machine word: the
\* statement above restricted to the lines that do not overflow.
C11_ScalingWhereItFits ==
    (Stepped /\ DecodedSingleLine(Last, Last.to)
             /\ ~starts_with(src[Last.to].val, "VmFlags")
             /\ SizedValueGrammar(src[Last.to].val)
             /\ KeyOf(src[Last.to].val) \in NumericKeys
             /\ SubSeq(ExactScaled(src[Last.to].val), Limbs(USIZE_BITS) + 1,
                       2 * Limbs(USIZE_BITS)) = Zero(USIZE_BITS))
        => Wide(Last.ret.val.val[Usage_key_field[KeyOf(src[Last.to].val)]])
             = ExactScaled(src[Last.to].val)

(***************************************************************************)
(* C12: lossless header decode.  For a valid header line                   *)
(* START-END PERMS OFFSET MAJ:MIN INODE [PATH...] the decoded Mapping      *)
(* holds the written values, and its path is everything written after      *)
(* INODE (absent only when nothing is), also when that is several tokens.  *)
(* The code keeps the first token after INODE only.                        *)
(***************************************************************************)
\* The text of a number: the hexadecimal digits of a limb, of a word, and
\* the decimal digits of a word.
LimbHex(l) ==
    Char(DigitsLower, (l \div 4096) + 1) \o Char(DigitsLower, ((l \div 256) % 16) + 1)
    \o Char(DigitsLower, ((l \div 16) % 16) + 1) \o Char(DigitsLower, (l % 16) + 1)

RECURSIVE WordHex(_)
WordHex(w) == IF w = <<>> THEN "" ELSE WordHex(Tail(w)) \o LimbHex(w[1])

\* w divided by the small number d: quotient and remainder.
RECURSIVE DivRem(_, _)
DivRem(w, d) ==
    IF w = <<>>
    THEN [q |-> <<>>, r |-> 0]
    ELSE LET hi == DivRem(Tail(w), d)
             cur == hi.r * LimbBase + w[1]
         IN  [q |-> <<cur \div d>> \o hi.q, r |-> cur % d]

RECURSIVE WordDec(_)
WordDec(w) ==
    IF \A i \in DOMAIN w : w[i] = 0
    THEN ""
    ELSE WordDec(DivRem(w, 10).q) \o Char(DigitsLower, DivRem(w, 10).r + 1)

\* A number as written, without the zeros that lead it.
RECURSIVE StripZeros(_)
StripZeros(s) == IF Len(s) > 0 /\ Char(s, 1) = "0" THEN StripZeros(Skip1(s, 1)) ELSE s

\* The text of a permission set.
PermsText(perms) ==
    (IF Permissions_bits.R \in perms THEN "r" ELSE "-")
    \o (IF Permissions_bits.W \in perms THEN "w" ELSE "-")
    \o (IF Permissions_bits.X \in perms THEN "x" ELSE "-")
    \o (IF Permissions_bits.S \in perms THEN "s" ELSE "")
    \o (IF Permissions_bits.P \in perms THEN "p" ELSE "")

\* The line from its (n+1)-th token on.
RECURSIVE AfterTokens(_, _)
AfterTokens(line, n) ==
    LET t == trim_ascii_start(line)
    IN  IF n = 0 THEN t ELSE AfterTokens(Skip1(t, TokenLen(t)), n - 1)

\* A string without the ASCII whitespace that ends it.
RECURSIVE TrimEnd(_)
TrimEnd(s) ==
    IF Len(s) > 0 /\ is_ascii_whitespace(Char(s, Len(s)))
    THEN TrimEnd(SubSeq(s, 1, Len(s) - 1))
    ELSE s

\* The path as written: everything after INODE, absent when nothing is.
WrittenPath(line) ==
    LET rest == TrimEnd(AfterTokens(line, 5))
    IN  IF rest = "" THEN None ELSE Some(rest)

HexText(s) == Len(s) > 0 /\ \A i \in 1..Len(s) : IsSome(to_digit(Char(s, i), 16))
DecText(s) == Len(s) > 0 /\ \A i \in 1..Len(s) : IsSome(to_digit(Char(s, i), 10))

\* The grammar of a header line whose numbers fit their fields.
ValidHeader(line) ==
    LET t == split_ascii_whitespace(line)
    IN  /\ Len(t) >= 5
        /\ IsSome(split_once(t[1], "-"))
        /\ HexText(split_once(t[1], "-").val[1]) /\ Len(StripZeros(split_once(t[1], "-").val[1])) <= 16
        /\ HexText(split_once(t[1], "-").val[2]) /\ Len(StripZeros(split_once(t[1], "-").val[2])) <= 16
        /\ Len(t[2]) = 4
        /\ Char(t[2], 1) \in {"r", "-"} /\ Char(t[2], 2) \in {"w", "-"}
        /\ Char(t[2], 3) \in {"x", "-"} /\ Char(t[2], 4) \in {"s", "p"}
        /\ HexText(t[3]) /\ Len(StripZeros(t[3])) <= 16
        /\ IsSome(split_once(t[4], ":"))
        /\ HexText(split_once(t[4], ":").val[1]) /\ Len(StripZeros(split_once(t[4], ":").val[1])) <= 8
        /\ HexText(split_once(t[4], ":").val[2]) /\ Len(StripZeros(split_once(t[4], ":").val[2])) <= 8
        /\ DecText(t[5]) /\ Len(StripZeros(t[5])) <= 19

\* The Mapping m holds the numbers and the permissions written in line.
FieldsAsWritten(m, line) ==
    LET t == split_ascii_whitespace(line)
        range == split_once(t[1], "-").val
        dev == split_once(t[4], ":").val
    IN  /\ StripZeros(WordHex(m.start)) = StripZeros(range[1])
        /\ StripZeros(WordHex(m.end)) = StripZeros(range[2])
        /\ PermsText(m.permissions) = t[2]
        /\ StripZeros(WordHex(m.offset)) = StripZeros(t[3])
        /\ StripZeros(WordHex(m.device.major)) = StripZeros(dev[1])
        /\ StripZeros(WordHex(m.device.minor)) = StripZeros(dev[2])
        /\ WordDec(m.inode) = StripZeros(t[5])

\* The header step st read the valid header line at its position.
ReadValidHeader(st) ==
    /\ st.op = "header"
    /\ st.from < Len(src) /\ IsOk(src[st.from + 1])
    /\ ValidHeader(src[st.from + 1].val)

C12_LosslessHeader ==
    (Stepped /\ ReadValidHeader(Last))
        => /\ IsOk(Last.ret) /\ IsSome(Last.ret.val)
           /\ FieldsAsWritten(Last.ret.val.val, src[Last.to].val)
           /\ Last.ret.val.val.path = WrittenPath(src[Last.to].val)

\* The same without the path of several tokens: the numbers, the
\* permissions and a path of at most one token are decoded as written: the
\* statement above restricted to the lines the code decodes in full.
C12_LosslessUpToFirstPathToken ==
    (Stepped /\ ReadValidHeader(Last))
        => /\ IsOk(Last.ret) /\ IsSome(Last.ret.val)
           /\ FieldsAsWritten(Last.ret.val.val, src[Last.to].val)
           /\ Last.ret.val.val.path = Token(split_ascii_whitespace(src[Last.to].val), 6)

(***************************************************************************)
(* C13: an unrecognized key is a hard stop.  When the decoding usage step  *)
(* gets as far as a detail line of the grammar KEY: NUMBER [UNIT] whose    *)
(* KEY is not a recognized one, the step ends at that line in the fatal    *)
(* outcome (the panic): the line is not skipped and the step returns no    *)
(* Usage, neither Some nor None.                                           *)
(***************************************************************************)
RecognizedKeys == DOMAIN Usage_key_field

\* The decoding usage step st gets as far as line k, a line of the grammar
\* whose key is not recognized.
ReachesUnrecognizedKey(st, k) ==
    /\ st.op = "usage"
    /\ Reaches(st, k)
    /\ DashFree(k)
    /\ SizedValueGrammar(src[k].val)
    /\ KeyOf(src[k].val) \notin RecognizedKeys

C13_UnrecognizedKeyFatal ==
    Stepped =>
        \A k \in 1..Len(src) :
            ReachesUnrecognizedKey(Last, k) =>
                /\ Last.to = k
                /\ IsPanic(Last.ret)
                /\ state = "Panicked"
                /\ ~starts_with(src[k].val, "VmFlags")
                      => Last.ret = Panic("Unrecognized key: " \o KeyOf(src[k].val))

\* A valid line, then a line with the key Foo: the decoding usage step has
\* panicked at the second.
C13_Witness ==
    /\ Stepped
    /\ ReachesUnrecognizedKey(Last, Last.from + 2)
    /\ src[Last.from + 2] = Ok("Foo: 1 kB")
    /\ Last.to = Last.from + 2
    /\ Last.ret = Panic("Unrecognized key: Foo")

(***************************************************************************)
(* C14: usage accumulation.  When the decoding usage step returns          *)
(* Some(usage) for a block, every field of usage holds the value of the    *)
(* last line of the block that names the field, and its default (0,        *)
(* false, absent, no flags) when no line of the block names it; so a line  *)
(* changes the field of its key only, thp_eligible is true exactly when    *)
(* the last THPeligible value is not zero, and protection_key is present   *)
(* exactly when the block holds a ProtectionKey line.  The value of a      *)
(* line is the machine word it decodes to.                                 *)
(***************************************************************************)
\* The decoding usage step st has returned Some(usage).
DecodedBlock(st) == st.op = "usage" /\ IsOk(st.ret) /\ IsSome(st.ret.val)

\* The field a line of a decoded block names.
LineField(line) ==
    IF starts_with(line, "VmFlags")
    THEN "vm_flags"
    ELSE Usage_key_field[KeyOf(line)]

\* What a line of a decoded block gives its field.
LineValue(line) ==
    LET word == Usage_parse_line(line).val[2]
    IN  CASE starts_with(line, "VmFlags") ->
               VmFlags_parse(trim_ascii_start(trim_start_matches(line, "VmFlags:"))).val
          [] KeyOf(line) = "THPeligible" -> \E i \in DOMAIN word : word[i] # 0
          [] KeyOf(line) = "ProtectionKey" -> Some(word)
          [] OTHER -> word

\* The lines of the block of the step st that name the field fld.
NamedBy(st, fld) == {i \in (st.from + 1)..st.to : LineField(src[i].val) = fld}

\* The last of a set of lines.
LastOf(S) == CHOOSE i \in S : \A j \in S : j <= i

C14_Accumulation ==
    (Stepped /\ DecodedBlock(Last)) =>
        \A fld \in DOMAIN Usage_default :
            Last.ret.val.val[fld] =
                IF NamedBy(Last, fld) = {}
                THEN Usage_default[fld]
                ELSE LineValue(src[LastOf(NamedBy(Last, fld))].val)

\* A block of two lines with the key Size: the decoded size is that of the
\* second line and not that of the first.
C14_Witness ==
    /\ Stepped
    /\ DecodedBlock(Last)
    /\ Last.to = Last.from + 2
    /\ src[Last.from + 1] = Ok("Size: 72 kB")
    /\ src[Last.from + 2] = Ok("Size: 4")
    /\ Last.ret.val.val.size = Usage_parse_line("Size: 4").val[2]
    /\ Last.ret.val.val.size # Usage_parse_line("Size: 72 kB").val[2]

(***************************************************************************)
(* C15: VM flag decoding.  The 32 mnemonics have 32 pairwise distinct      *)
(* bits.  The flags decoded from a VmFlags line of recognized mnemonics    *)
(* are the union of their bits, whatever the order and the repetitions,    *)
(* and the empty set for an empty list.  A token outside the table is a    *)
(* failure (the panic of VmFlags::parse) and no flag set.  In a usage      *)
(* block a VmFlags line replaces vm_flags and changes no other field.      *)
(***************************************************************************)
Mnemonics == DOMAIN VmFlags_mnemonic

BitOf(m) == VmFlags_bits[VmFlags_mnemonic[m]]

MnemonicsDistinct ==
    /\ Cardinality(Mnemonics) = U32_BITS
    /\ \A a, b \in Mnemonics : a # b => BitOf(a) # BitOf(b)
    /\ \A a \in Mnemonics : BitOf(a) \in 0..(U32_BITS - 1)

\* A VmFlags line and the tokens after its key.
IsVmFlagsLine(line) == Token(split_ascii_whitespace(line), 1) = Some("VmFlags:")

FlagsOf(line) == Tail(split_ascii_whitespace(line))

\* The union of the bits of a list of recognized mnemonics.
UnionOfBits(toks) == {BitOf(toks[i]) : i \in DOMAIN toks}

Unrecognized(toks) == {i \in DOMAIN toks : toks[i] \notin Mnemonics}

FirstUnrecognized(toks) ==
    toks[CHOOSE i \in Unrecognized(toks) : \A j \in Unrecognized(toks) : i <= j]

\* The decoding usage step st gets as far as the VmFlags line k.
ReachesFlagsLine(st, k) ==
    /\ st.op = "usage"
    /\ Reaches(st, k)
    /\ DashFree(k)
    /\ IsVmFlagsLine(src[k].val)

\* The VmFlags lines of the block of the step st.
FlagsLinesOf(st) == {i \in (st.from + 1)..st.to : IsVmFlagsLine(src[i].val)}

NoFlagsLine(item) == ~IsVmFlagsLine(item.val)

\* The block of the step st without its VmFlags lines.
WithoutFlagsLines(st) == SelectSeq(SubSeq(src, st.from + 1, st.to), NoFlagsLine)

C15_VmFlags ==
    /\ MnemonicsDistinct
    /\ Stepped =>
         \A k \in 1..Len(src) :
            (ReachesFlagsLine(Last, k) /\ Unrecognized(FlagsOf(src[k].val)) # {})
                => /\ Last.to = k
                   /\ Last.ret = Panic("Unrecognized VM flag: "
                                       \o FirstUnrecognized(FlagsOf(src[k].val)))
                   /\ state = "Panicked"
    /\ (Stepped /\ DecodedBlock(Last)) =>
         /\ Last.ret.val.val.vm_flags =
               IF FlagsLinesOf(Last) = {}
               THEN {}
               ELSE UnionOfBits(FlagsOf(src[LastOf(FlagsLinesOf(Last))].val))
         /\ Usage_parse(WithoutFlagsLines(Last), 0).ret =
               Ok(Some([Last.ret.val.val EXCEPT !.vm_flags = {}]))

\* A VmFlags line with a repeated mnemonic, out of the order of the table,
\* has been decoded to the two bits, and the line after it to its field.
C15_Witness ==
    /\ Stepped
    /\ DecodedBlock(Last)
    /\ Last.to = Last.from + 2
    /\ src[Last.from + 1] = Ok("VmFlags: uw rd uw")
    /\ src[Last.from + 2] = Ok("Rss: 4")
    /\ Last.ret.val.val.vm_flags = {VmFlags_bits.UW, VmFlags_bits.RD}
    /\ Last.ret.val.val.rss = Usage_parse_line("Rss: 4").val[2]

(***************************************************************************)
(* C16: decoding and skipping stop at the same place.  Whenever the        *)
(* decoding usage step returns Some(usage), skip run from the same         *)
(* position consumes the same lines: both leave the parser at the same     *)
(* position, expecting a header, and the header step that follows returns  *)
(* the same in both runs.                                                  *)
(***************************************************************************)
\* What skip does from the position the step st started at.
SkipInstead(st) == Parser_ParseUsage_skip(src, st.from).parser

\* The lines a step consumed.
Consumed(from, to) == (from + 1)..to

\* The step before the last.
Previous == trace[Len(trace) - 1]

C16_DecodeSkipEquivalence ==
    /\ (Stepped /\ DecodedBlock(Last)) =>
          /\ Consumed(Last.from, SkipInstead(Last).iter) = Consumed(Last.from, Last.to)
          /\ SkipInstead(Last).iter = Last.to
          /\ SkipInstead(Last)._state = Last.next
    /\ (Len(trace) >= 2 /\ DecodedBlock(Previous)) =>
          LET after == Parser_ParseMapping_next(src, SkipInstead(Previous).iter)
          IN  /\ Last.op = "header"
              /\ Last.ret = after.ret
              /\ Last.to = after.parser.iter
              /\ Last.next = after.parser._state

\* A block of one line between two headers has been decoded, and the header
\* step after it has returned the second Mapping.
C16_Witness ==
    /\ Len(trace) = 3
    /\ DecodedBlock(trace[2])
    /\ trace[2].to = trace[2].from + 1
    /\ SkipInstead(trace[2]).iter = trace[2].to
    /\ Last.op = "header"
    /\ IsOk(Last.ret) /\ IsSome(Last.ret.val)
    /\ Last.to = 3

(***************************************************************************)
(* C17: a usage step neither consumes nor returns an I/O error.  No item   *)
(* consumed by the decoding usage step or by skip is an I/O error, and     *)
(* the decoding usage step never returns Err.  An I/O error such a step    *)
(* comes to stays the next unread item; the header step that follows       *)
(* returns exactly that error, and with it the parser is gone: no step     *)
(* follows on that stream.                                                 *)
(***************************************************************************)
UsageStep(st) == st.op \in {"usage", "skip"}

\* The usage step st came to an I/O error: it returned a parser and the
\* item after the last one it consumed is an I/O error.
StoppedAtError(st) ==
    /\ UsageStep(st)
    /\ st.next = "ParseMapping"
    /\ st.to < Len(src)
    /\ IsErr(src[st.to + 1])

\* The usage step st scans up to the I/O error at item k: the items before
\* it are lines without '-' that (for the decoding step) decode cleanly.
ScansToError(st, k) ==
    /\ UsageStep(st)
    /\ k \in (st.from + 1)..Len(src)
    /\ IsErr(src[k])
    /\ \A i \in (st.from + 1)..(k - 1) :
          DashFree(i) /\ (st.op = "usage" => DecodesCleanly(src[i].val))

C17_IoErrorKept ==
    /\ (Stepped /\ UsageStep(Last)) =>
          /\ \A k \in Consumed(Last.from, Last.to) : IsOk(src[k])
          /\ ~IsErr(Last.ret)
          /\ \A k \in 1..Len(src) :
                ScansToError(Last, k) =>
                    /\ Last.to = k - 1
                    /\ pos = k - 1
                    /\ state = "ParseMapping"
                    /\ Last.op = "usage" => IsOk(Last.ret) /\ IsSome(Last.ret.val)
    /\ (Len(trace) >= 2 /\ StoppedAtError(Previous)) =>
          /\ Last.op = "header"
          /\ Last.ret = src[Previous.to + 1]
          /\ Last.to = Previous.to + 1
          /\ state = "Dropped"
    /\ state = "Dropped" => ~ENABLED Next
    /\ \A i \in 1..Len(trace) : IsErr(trace[i].ret) => i = Len(trace)

\* A block of one line followed by an I/O error: the decoding usage step
\* has returned Some(usage) with the error unread, and the header step
\* after it has returned the error.
C17_Witness ==
    /\ Len(trace) = 3
    /\ Len(src) = 3 /\ src[3] = IoError
    /\ DecodedBlock(Previous)
    /\ Previous.from = 1 /\ Previous.to = 2
    /\ StoppedAtError(Previous)
    /\ Last.op = "header"
    /\ Last.ret = IoError
    /\ state = "Dropped"

(***************************************************************************)
(* C18: the field shmem_huge_pages is dead.  No key is dispatched to it:   *)
(* it is 0 in every Usage the decoding usage step returns, and a detail    *)
(* line with the key ShmemHugePages is handled as an unrecognized key.     *)
(***************************************************************************)
\* The decoding usage step st gets as far as line k, a line of the grammar
\* with the key ShmemHugePages.
ReachesShmemHugePages(st, k) ==
    /\ st.op = "usage"
    /\ Reaches(st, k)
    /\ DashFree(k)
    /\ SizedValueGrammar(src[k].val)
    /\ KeyOf(src[k].val) = "ShmemHugePages"

C18_DeadField ==
    /\ \A key \in RecognizedKeys : Usage_key_field[key] # "shmem_huge_pages"
    /\ (Stepped /\ DecodedBlock(Last)) =>
          /\ \A i \in 1..Limbs(USIZE_BITS) : Last.ret.val.val.shmem_huge_pages[i] = 0
          /\ \A k \in Consumed(Last.from, Last.to) : KeyOf(src[k].val) # "ShmemHugePages"
    /\ Stepped =>
          \A k \in 1..Len(src) :
              ReachesShmemHugePages(Last, k) =>
                  /\ Last.to = k
                  /\ Last.ret = Panic("Unrecognized key: ShmemHugePages")

\* The line "ShmemHugePages: 4 kB" opens a block: the decoding usage step
\* has panicked at it.
C18_Witness ==
    /\ Stepped
    /\ ReachesShmemHugePages(Last, Last.from + 1)
    /\ src[Last.from + 1] = Ok("ShmemHugePages: 4 kB")
    /\ Last.ret = Panic("Unrecognized key: ShmemHugePages")
    /\ state = "Panicked"

(***************************************************************************)
(* C19: termination.  A driver repeats header step, then usage step        *)
(* (decoding or skipping), and stops when the header step returns no       *)
(* Mapping or an error.  On a source of N items, with no step ending in a  *)
(* panic, it takes at most N + 1 header steps; a header step that returns  *)
(* a Mapping leaves fewer unread items than it found, and no step leaves   *)
(* more.                                                                   *)
(***************************************************************************)
\* The header step st returned a Mapping.
ReturnedMapping(st) == st.op = "header" /\ IsOk(st.ret) /\ IsSome(st.ret.val)

HeaderSteps == {i \in 1..Len(trace) : trace[i].op = "header"}

\* The steps taken are those of the driver: it went on after a header step
\* only when the step had returned a Mapping, and no step panicked.
DriverRun ==
    /\ \A i \in 1..(Len(trace) - 1) : trace[i].op = "header" => ReturnedMapping(trace[i])
    /\ \A i \in 1..Len(trace) : Returned(trace[i])

\* The driver has stopped: its last header step returned no Mapping or an
\* error.
DriverStopped == Stepped /\ Last.op = "header" /\ ~ReturnedMapping(Last)

\* The number of unread items at position p.
Unread(p) == Len(src) - p

C19_Termination ==
    /\ DriverRun =>
          /\ Cardinality(HeaderSteps) <= Len(src) + 1
          /\ Cardinality(HeaderSteps) = Len(src) + 1 => DriverStopped
    /\ Stepped =>
          /\ Unread(Last.to) <= Unread(Last.from)
          /\ ReturnedMapping(Last) => Unread(Last.to) < Unread(Last.from)
          /\ Unread(Last.to) >= 0

\* A source of MaxLines header lines: the driver has taken MaxLines + 1
\* header steps and has stopped at the end of the source.
C19_Witness ==
    /\ DriverRun
    /\ Len(src) = MaxLines
    /\ Cardinality(HeaderSteps) = MaxLines + 1
    /\ DriverStopped
    /\ Last.ret = Ok(None)
    /\ Unread(pos) = 0

=============================================================================
